---- MODULE Spec2Model ----
(***************************************************************************)
(* Model of the sigil / valt credential manager: the Vault Manager         *)
(* (crates/valt-core/src/manager.rs) over an encrypted document store,     *)
(* and the terminal session state machine (src/tui/app.rs, events.rs).     *)
(*                                                                         *)
(* Strings are sequences of one-character strings.  Option<T> is a         *)
(* sequence of length 0 (None) or 1 (Some).  Uuid::new_v4 is a fresh       *)
(* natural number, Utc::now a non-decreasing reading of a bounded clock.   *)
(***************************************************************************)
EXTENDS Integers, Sequences, FiniteSets, TLC

(* ---------------------------- bounds ---------------------------------- *)

\* largest clock reading
MaxTime == 3
\* number of ids Uuid::new_v4 may hand out during a run
MaxIds == 4
\* largest number of records a document may hold in a session
MaxSecrets == 3
\* largest number of records a document may hold under direct API use
CoreSecrets == 2
\* longest master-password input / search query typed
MaxInput == 1
\* largest total number of characters held by a form draft
MaxDraft == 2
\* largest document version found on disk
MaxVersion == 2
\* number of store operations that may fail during a run
MaxFails == 1
\* longest password asked of the generator when it is called on its own
MaxLen == 2
\* largest reading of the monotonic clock
MaxMono == 4
\* largest number of records in the vault a looping session opens
LoopSecrets == 1
\* number of forms a session on a fresh vault may save
FreshSaves == 1
\* longest tags field typed into a form (SpecTags)
MaxTags == 3
\* longest search query typed in the list
MaxQuery == 2

(* ------------------------ program constants --------------------------- *)

CURRENT_VERSION == 1
FORM_FIELD_COUNT == 6
\* GeneratorConfig::default().length
DEFAULT_LENGTH == 20
\* Duration::from_secs(30), in ticks of the monotonic clock (10 s each)
CLIPBOARD_TIMEOUT == 3

(* ---------------------------- helpers --------------------------------- *)

None == <<>>
Some(x) == <<x>>
IsSome(o) == Len(o) = 1
Unwrap(o) == o[1]

Min(a, b) == IF a < b THEN a ELSE b
Max(a, b) == IF a < b THEN b ELSE a
\* usize::saturating_sub
SatSub(a, b) == IF a < b THEN 0 ELSE a - b

\* characters the keyboard can produce in the model
Chars == {"a"}
\* the master password the stored samples were written with
GoodPw == <<"a">>

(* ------------------------- Secret (secret.rs) ------------------------- *)

\* Secret::new that leaves updated_at at the epoch
SecretNew_epoch_updated(name, password, id, t) ==
    [id |-> id, name |-> name, username |-> None, password |-> password,
     url |-> None, notes |-> None, tags |-> <<>>,
     created_at |-> t, updated_at |-> 0]

\* Secret::new: fresh id, optional fields absent, both timestamps = now
SecretNew(name, password, id, t) ==
    [id |-> id, name |-> name, username |-> None, password |-> password,
     url |-> None, notes |-> None, tags |-> <<>>,
     created_at |-> t, updated_at |-> t]

\* Secret::touch
touch(s, t) == [s EXCEPT !.updated_at = t]

\* the user-facing fields of a record
UserFields(s) ==
    <<s.name, s.username, s.password, s.url, s.notes, s.tags>>

(* --------------------- VaultData (vault_data.rs) ---------------------- *)

\* VaultData::default
VaultDataDefault == [version |-> CURRENT_VERSION, secrets |-> <<>>]

(* ----------------- Encrypted document store (VaultFile) --------------- *)
\* The file is absent (None) or holds one document encrypted under a
\* password.  A handle is the password it was opened with.

\* VaultFile::exists
exists(d) == IsSome(d)

\* VaultFile::load: fails on a missing file, a wrong password or an I/O error
load(d, pw, io_ok) ==
    IF IsSome(d) /\ Unwrap(d).password = pw /\ io_ok
    THEN [ok |-> TRUE, data |-> Unwrap(d).data]
    ELSE [ok |-> FALSE, data |-> VaultDataDefault]

\* VaultFile::save: atomic; a failed write leaves the file as it was
StoreSave(d, pw, data, io_ok) ==
    IF io_ok THEN Some([password |-> pw, data |-> data]) ELSE d

(* --------------------- VaultManager (manager.rs) ---------------------- *)
\* A manager is [password, data]; every operation returns the new manager,
\* the new file and the result ("Ok", "Vault" or "NotFound").

Manager(pw, data) == [password |-> pw, data |-> data]

\* VaultManager::list
list(m) == m.data.secrets

\* index of the first record with this id, 0 when there is none
IndexOf(secrets, id) ==
    IF \E i \in 1..Len(secrets) : secrets[i].id = id
    THEN CHOOSE i \in 1..Len(secrets) :
            /\ secrets[i].id = id
            /\ \A j \in 1..(i - 1) : secrets[j].id # id
    ELSE 0

\* VaultManager::get
get(m, id) ==
    LET i == IndexOf(list(m), id)
    IN  IF i = 0 THEN None ELSE Some(list(m)[i])

\* VaultManager::save
save(m, d, io_ok) ==
    [mgr |-> m,
     res |-> IF io_ok THEN "Ok" ELSE "Vault",
     disk |-> StoreSave(d, m.password, m.data, io_ok)]

\* VaultManager::open
open(d, pw, io_ok) ==
    LET r == load(d, pw, io_ok)
    IN  IF r.ok
        THEN [res |-> "Ok", mgr |-> Some(Manager(pw, r.data)), disk |-> d]
        ELSE [res |-> "Vault", mgr |-> None, disk |-> d]

\* create that hands out the manager before anything is written
create_unsaved(d, pw, io_ok) ==
    [res |-> "Ok", mgr |-> Some(Manager(pw, VaultDataDefault)), disk |-> d]

\* VaultManager::create
create(d, pw, io_ok) ==
    LET s == save(Manager(pw, VaultDataDefault), d, io_ok)
    IN  IF s.res = "Ok"
        THEN [res |-> "Ok", mgr |-> Some(s.mgr), disk |-> s.disk]
        ELSE [res |-> "Vault", mgr |-> None, disk |-> s.disk]

\* VaultManager::open_or_create
open_or_create(d, pw, io_ok) ==
    IF exists(d) THEN open(d, pw, io_ok) ELSE create(d, pw, io_ok)

\* add that persists the document before appending to it
add_save_first(m, d, secret, io_ok) ==
    [save(m, d, io_ok) EXCEPT !.mgr = [m EXCEPT !.data.secrets = Append(@, secret)]]

\* add that takes the record back when the save fails
add_rolling_back(m, d, secret, io_ok) ==
    IF io_ok
    THEN save([m EXCEPT !.data.secrets = Append(@, secret)], d, io_ok)
    ELSE save(m, d, io_ok)

\* VaultManager::add
add(m, d, secret, io_ok) ==
    save([m EXCEPT !.data.secrets = Append(@, secret)], d, io_ok)

\* update that keeps the id and created_at carried by the argument
update_trusting_arg(m, d, id, updated, t, io_ok) ==
    LET i == IndexOf(list(m), id)
    IN  IF i = 0
        THEN [mgr |-> m, res |-> "NotFound", disk |-> d]
        ELSE save([m EXCEPT !.data.secrets[i] = touch(updated, t)], d, io_ok)

\* VaultManager::update; t is the clock reading taken by touch()
update(m, d, id, updated, t, io_ok) ==
    LET i == IndexOf(list(m), id)
    IN  IF i = 0
        THEN [mgr |-> m, res |-> "NotFound", disk |-> d]
        ELSE LET entry == list(m)[i]
                 u == touch([updated EXCEPT !.id = id,
                                            !.created_at = entry.created_at], t)
             IN  save([m EXCEPT !.data.secrets[i] = u], d, io_ok)

\* delete that commits the removal only once the document is persisted
delete_staged(m, d, id, io_ok) ==
    LET kept == SelectSeq(list(m), LAMBDA s : s.id # id)
        r == save([m EXCEPT !.data.secrets = kept], d, io_ok)
    IN  IF Len(kept) = Len(list(m))
        THEN [mgr |-> m, res |-> "NotFound", disk |-> d]
        ELSE IF r.res = "Ok" THEN r ELSE [r EXCEPT !.mgr = m]

\* delete that persists before it looks at what was removed
delete_saving_always(m, d, id, io_ok) ==
    LET kept == SelectSeq(list(m), LAMBDA s : s.id # id)
        r == save([m EXCEPT !.data.secrets = kept], d, io_ok)
    IN  IF Len(kept) = Len(list(m))
        THEN [r EXCEPT !.res = "NotFound"]
        ELSE r

\* VaultManager::delete
delete(m, d, id, io_ok) ==
    LET kept == SelectSeq(list(m), LAMBDA s : s.id # id)
    IN  IF Len(kept) = Len(list(m))
        THEN [mgr |-> m, res |-> "NotFound", disk |-> d]
        ELSE save([m EXCEPT !.data.secrets = kept], d, io_ok)

(* ------------------------ search (manager.rs) ------------------------- *)

RECURSIVE IsSubseq(_, _)
\* every character of q occurs in text, in order
IsSubseq(q, text) ==
    IF q = <<>> THEN TRUE
    ELSE IF text = <<>> THEN FALSE
    ELSE IF Head(q) = Head(text) THEN IsSubseq(Tail(q), Tail(text))
    ELSE IsSubseq(q, Tail(text))

\* SkimMatcherV2::fuzzy_match: no score unless the query is a subsequence of
\* the text; a higher score for a longer query and for a shorter text
fuzzy_match(text, query) ==
    IF IsSubseq(query, text)
    THEN Some(16 * Len(query) + SatSub(8, Len(text)))
    ELSE None

\* Iterator::max over a set of optional scores
MaxScore(S) ==
    LET vals == {Unwrap(o) : o \in {x \in S : IsSome(x)}}
    IN  IF vals = {} THEN None
        ELSE Some(CHOOSE v \in vals : \A w \in vals : w <= v)

\* unwrap_or(0)
UnwrapOr0(o) == IF IsSome(o) THEN Unwrap(o) ELSE 0

\* match_score that also looks at the password
match_score_with_password(secret, query) ==
    LET candidates == {Some(secret.name), secret.username, secret.url,
                       Some(secret.password)}
        best_field == MaxScore({fuzzy_match(Unwrap(c), query) :
                                    c \in {x \in candidates : IsSome(x)}})
        best_tag == MaxScore({fuzzy_match(secret.tags[i], query) :
                                    i \in 1..Len(secret.tags)})
    IN  IF best_field = None /\ best_tag = None
        THEN None
        ELSE Some(Max(UnwrapOr0(best_field), UnwrapOr0(best_tag)))

\* VaultManager::match_score
match_score(secret, query) ==
    LET candidates == {Some(secret.name), secret.username, secret.url}
        best_field == MaxScore({fuzzy_match(Unwrap(c), query) :
                                    c \in {x \in candidates : IsSome(x)}})
        best_tag == MaxScore({fuzzy_match(secret.tags[i], query) :
                                    i \in 1..Len(secret.tags)})
    IN  IF best_field = None /\ best_tag = None
        THEN None
        ELSE Some(Max(UnwrapOr0(best_field), UnwrapOr0(best_tag)))

RECURSIVE InsertByScore_ascending(_, _, _)
\* insertion for a sort with the lowest score first
InsertByScore_ascending(sorted, s, query) ==
    IF sorted = <<>> THEN <<s>>
    ELSE IF Unwrap(match_score(Head(sorted), query)) <= Unwrap(match_score(s, query))
    THEN <<Head(sorted)>> \o InsertByScore_ascending(Tail(sorted), s, query)
    ELSE <<s>> \o sorted

RECURSIVE InsertByScore(_, _, _)
\* place s after every element whose score is at least as high (stable)
InsertByScore(sorted, s, query) ==
    IF sorted = <<>> THEN <<s>>
    ELSE IF Unwrap(match_score(Head(sorted), query)) >= Unwrap(match_score(s, query))
    THEN <<Head(sorted)>> \o InsertByScore(Tail(sorted), s, query)
    ELSE <<s>> \o sorted

RECURSIVE SortByScore(_, _)
\* slice::sort_by(|a, b| b.0.cmp(&a.0)): stable, highest score first
SortByScore(secrets, query) ==
    IF secrets = <<>> THEN <<>>
    ELSE InsertByScore(SortByScore(SubSeq(secrets, 1, Len(secrets) - 1), query),
                       secrets[Len(secrets)], query)

\* search that scores and sorts whatever the query is
search_scoring_always(m, query) ==
    SortByScore(SelectSeq(list(m), LAMBDA s : IsSome(match_score(s, query))), query)

\* VaultManager::search
search(m, query) ==
    IF query = <<>> THEN list(m)
    ELSE SortByScore(SelectSeq(list(m), LAMBDA s : IsSome(match_score(s, query))),
                     query)

(* ------------------------ SecretDraft (app.rs) ------------------------ *)

\* String::pop
Pop(str) == IF str = <<>> THEN str ELSE SubSeq(str, 1, Len(str) - 1)

RECURSIVE TrimStart(_)
TrimStart(str) ==
    IF str # <<>> /\ Head(str) = " " THEN TrimStart(Tail(str)) ELSE str

RECURSIVE TrimEnd(_)
TrimEnd(str) ==
    IF str # <<>> /\ str[Len(str)] = " " THEN TrimEnd(Pop(str)) ELSE str

\* str::trim
Trim(str) == TrimEnd(TrimStart(str))

RECURSIVE Split(_, _)
\* str::split(sep): the pieces between separators, empty pieces included
Split(str, sep) ==
    IF \E i \in 1..Len(str) : str[i] = sep
    THEN LET i == CHOOSE k \in 1..Len(str) :
                      str[k] = sep /\ \A j \in 1..(k - 1) : str[j] # sep
         IN  <<SubSeq(str, 1, i - 1)>> \o Split(SubSeq(str, i + 1, Len(str)), sep)
    ELSE <<str>>

RECURSIVE Join_with_blank(_)
\* join that puts a blank alone between the tags
Join_with_blank(pieces) ==
    IF pieces = <<>> THEN <<>>
    ELSE IF Len(pieces) = 1 THEN pieces[1]
    ELSE pieces[1] \o <<" ">> \o Join_with_blank(Tail(pieces))

RECURSIVE Join(_)
\* [String]::join(", ")
Join(pieces) ==
    IF pieces = <<>> THEN <<>>
    ELSE IF Len(pieces) = 1 THEN pieces[1]
    ELSE pieces[1] \o <<",", " ">> \o Join(Tail(pieces))

\* the three-stage iterator of save_form: split, trim, drop empties
ParseTags(str) ==
    LET pieces == Split(str, ",")
        trimmed == [i \in 1..Len(pieces) |-> Trim(pieces[i])]
    IN  SelectSeq(trimmed, LAMBDA t : t # <<>>)

\* Option<String>::unwrap_or_default
UnwrapOrDefault(o) == IF IsSome(o) THEN Unwrap(o) ELSE <<>>

\* SecretDraft::empty
DraftEmpty ==
    [name |-> <<>>, username |-> <<>>, password |-> <<>>,
     url |-> <<>>, tags |-> <<>>, notes |-> <<>>]

\* SecretDraft::from_secret
from_secret(s) ==
    [name |-> s.name, username |-> UnwrapOrDefault(s.username),
     password |-> s.password, url |-> UnwrapOrDefault(s.url),
     tags |-> Join(s.tags), notes |-> UnwrapOrDefault(s.notes)]

\* validate that tests the name without trimming it
validate_untrimmed(draft) ==
    IF draft.name = <<>> THEN Some("Name is required")
    ELSE IF draft.password = <<>> THEN Some("Password is required")
    ELSE None

\* validate that looks at the password before the name
validate_password_first(draft) ==
    IF draft.password = <<>> THEN Some("Password is required")
    ELSE IF Trim(draft.name) = <<>> THEN Some("Name is required")
    ELSE None

\* SecretDraft::validate
validate(draft) ==
    IF Trim(draft.name) = <<>> THEN Some("Name is required")
    ELSE IF draft.password = <<>> THEN Some("Password is required")
    ELSE None

\* get_field_mut: the draft field a focus index designates
FieldName(field) ==
    CASE field = 0 -> "name"
      [] field = 1 -> "username"
      [] field = 2 -> "password"
      [] field = 3 -> "url"
      [] field = 4 -> "tags"
      [] field = 5 -> "notes"
      [] OTHER -> "name"

\* total number of characters a draft holds
DraftSize(draft) ==
    Len(draft.name) + Len(draft.username) + Len(draft.password)
        + Len(draft.url) + Len(draft.tags) + Len(draft.notes)

\* a record whose tags are the raw comma-separated pieces
BuildSecret_raw_tags(draft, id, t) ==
    [SecretNew(draft.name, draft.password, id, t) EXCEPT
        !.username = IF draft.username # <<>> THEN Some(draft.username) ELSE None,
        !.url = IF draft.url # <<>> THEN Some(draft.url) ELSE None,
        !.notes = IF draft.notes # <<>> THEN Some(draft.notes) ELSE None,
        !.tags = Split(draft.tags, ",")]

\* the record save_form builds from a draft (events.rs 342-357)
BuildSecret(draft, id, t) ==
    [SecretNew(draft.name, draft.password, id, t) EXCEPT
        !.username = IF draft.username # <<>> THEN Some(draft.username) ELSE None,
        !.url = IF draft.url # <<>> THEN Some(draft.url) ELSE None,
        !.notes = IF draft.notes # <<>> THEN Some(draft.notes) ELSE None,
        !.tags = ParseTags(draft.tags)]

(* ------------------------- AppView (app.rs) --------------------------- *)

Locked(input, error) == [tag |-> "Locked", input |-> input, error |-> error]
List(query, idx) == [tag |-> "List", search_query |-> query, selected_idx |-> idx]
Detail(id, show) == [tag |-> "Detail", secret_id |-> id, show_password |-> show]
Form(mode, draft, focus, show, error) ==
    [tag |-> "Form", mode |-> mode, draft |-> draft, focused_field |-> focus,
     show_password |-> show, error |-> error]
Help == [tag |-> "Help"]

FormAdd == [kind |-> "Add", id |-> 0]
FormEdit(id) == [kind |-> "Edit", id |-> id]

\* a list opened with its second row selected
go_to_list_second_row == List(<<>>, 1)

\* AppState::go_to_list
go_to_list == List(<<>>, 0)

\* format!("Save failed: {e}") with CoreError's Display
SaveFailed(res) ==
    IF res = "Vault" THEN "Save failed: Vault error"
    ELSE "Save failed: Secret not found"

(* -------------------- generator (generator.rs) ------------------------ *)

UPPERCASE ==
    <<"A", "B", "C", "D", "E", "F", "G", "H", "I", "J", "K", "L", "M",
      "N", "O", "P", "Q", "R", "S", "T", "U", "V", "W", "X", "Y", "Z">>
LOWERCASE ==
    <<"a", "b", "c", "d", "e", "f", "g", "h", "i", "j", "k", "l", "m",
      "n", "o", "p", "q", "r", "s", "t", "u", "v", "w", "x", "y", "z">>
DIGITS == <<"0", "1", "2", "3", "4", "5", "6", "7", "8", "9">>
SYMBOLS ==
    <<"!", "@", "#", "$", "%", "^", "&", "*", "(", ")", "-", "_", "=",
      "+", "[", "]", "{", "}", "|", ";", ":", ",", ".", "<", ">", "?">>

GeneratorConfig(length, uppercase, lowercase, digits, symbols) ==
    [length |-> length, uppercase |-> uppercase, lowercase |-> lowercase,
     digits |-> digits, symbols |-> symbols]

\* GeneratorConfig::default
GeneratorConfigDefault == GeneratorConfig(DEFAULT_LENGTH, TRUE, TRUE, TRUE, TRUE)

\* the charset generate builds by push_str, class by class
Charset(config) ==
    (IF config.uppercase THEN UPPERCASE ELSE <<>>)
        \o (IF config.lowercase THEN LOWERCASE ELSE <<>>)
        \o (IF config.digits THEN DIGITS ELSE <<>>)
        \o (IF config.symbols THEN SYMBOLS ELSE <<>>)

\* the sequences of indices rng.gen_range(0..chars.len()) may return; the
\* generator is not asked when generate returns before the sampling
Picks(config) ==
    IF Charset(config) = <<>> THEN {<<>>}
    ELSE [1..config.length -> 0..(Len(Charset(config)) - 1)]

\* generate that looks at the charset before it looks at the length
generate_charset_first(config, picks) ==
    IF Charset(config) = <<>>
    THEN [res |-> "EmptyCharset", password |-> <<>>]
    ELSE IF config.length = 0
    THEN [res |-> "InvalidLength", password |-> <<>>]
    ELSE [res |-> "Ok",
          password |-> [i \in 1..config.length |-> Charset(config)[picks[i] + 1]]]

\* generate; picks[i] is what the i-th call of gen_range returns
generate(config, picks) ==
    IF config.length = 0
    THEN [res |-> "InvalidLength", password |-> <<>>]
    ELSE IF Charset(config) = <<>>
    THEN [res |-> "EmptyCharset", password |-> <<>>]
    ELSE [res |-> "Ok",
          password |-> [i \in 1..config.length |-> Charset(config)[picks[i] + 1]]]

(* ------------------ terminal and clipboard (mod.rs) ------------------- *)

\* the terminal's mode: raw mode, alternate screen, mouse capture
Terminal(raw, alt, mouse) == [raw |-> raw, alt |-> alt, mouse |-> mouse]
\* the mode the terminal is in before the session
Cooked == Terminal(FALSE, FALSE, FALSE)

\* what the clipboard holds before the session: something copied elsewhere
OtherText == <<"o">>

(* ------------------------------ state --------------------------------- *)

VARIABLES
    disk,        \* Option<file>: the encrypted vault file
    vault,       \* Option<VaultManager>: AppState.vault
    now,         \* last reading of the clock
    nextId,      \* number of ids handed out so far
    fails,       \* number of store operations that have failed so far
    last,        \* the Vault Manager or clipboard call of the last step, if any
    view,        \* AppState.view
    should_quit, \* AppState.should_quit
    status,      \* AppState.status
    clipboard_clear_at, \* AppState.clipboard_clear_at: Option<Instant>
    clipboard,   \* the text the system clipboard holds
    mono,        \* last reading of Instant::now()
    pc,          \* where run / run_loop stands
    term,        \* the mode the terminal is in
    gen_config,  \* the GeneratorConfig handed to generate
    gen_result   \* what generate returned for it, if it was called

uiVars == <<view, should_quit, status>>
\* what only the session loop, the clipboard arm and the generator touch
envVars == <<clipboard_clear_at, clipboard, mono, pc, term, gen_config, gen_result>>
vars == <<disk, vault, now, nextId, fails, last, view, should_quit, status,
          clipboard_clear_at, clipboard, mono, pc, term, gen_config, gen_result>>

\* outcomes the next store operation may have
IoOutcomes == IF fails < MaxFails THEN BOOLEAN ELSE {TRUE}
\* the failure count after a Vault Manager call that returned res
Failed(res) == IF res = "Vault" THEN fails + 1 ELSE fails

NoCall == [op |-> "none", res |-> "Ok", id |-> 0, arg |-> None]
Call(op, res, id, arg) == [op |-> op, res |-> res, id |-> id, arg |-> arg]

Mutations == {"add", "update", "delete"}

\* a reading of Utc::now(): never before the previous reading
ClockReads == {t \in now..(now + 1) : t <= MaxTime}

(* documents an earlier session may have left on disk; every timestamp in
   them lies before the first clock reading of this run *)
SampleSecrets ==
    << [SecretNew(<<"a">>, <<"a">>, 1, 0) EXCEPT !.tags = << <<"b">> >>],
       [SecretNew(<<"a", "b">>, <<"b">>, 2, 0) EXCEPT !.updated_at = 1],
       SecretNew(<<"b">>, <<"a">>, 3, 1) >>

File(v, secrets) ==
    Some([password |-> GoodPw, data |-> [version |-> v, secrets |-> secrets]])

\* no file, an empty vault of any version, or a vault holding n samples
InitDisks(n) ==
    {None}
    \cup {File(v, <<>>) : v \in 1..MaxVersion}
    \cup {File(CURRENT_VERSION, SubSeq(SampleSecrets, 1, Min(n, Len(SampleSecrets))))}

InitWith(n) ==
    /\ disk \in InitDisks(n)
    /\ vault = None
    /\ now = 2
    /\ nextId = Len(SampleSecrets)
    /\ fails = 0
    /\ last = NoCall
    /\ view = Locked(<<>>, None)
    /\ should_quit = FALSE
    /\ status = None
    /\ clipboard_clear_at = None
    /\ clipboard = OtherText
    /\ mono = 0
    /\ term = Cooked
    /\ gen_config = GeneratorConfigDefault
    /\ gen_result = None

(* ---------------- direct use of the Vault Manager API ----------------- *)

Passwords == {<<>>, GoodPw, <<"b">>}
Names == {<<"a">>, <<"b">>}

\* a caller opens the store at the vault path
CoreOpenOrCreate ==
    /\ vault = None
    /\ \E pw \in Passwords, io_ok \in IoOutcomes :
         LET r == open_or_create(disk, pw, io_ok)
         IN  /\ vault' = r.mgr
             /\ disk' = r.disk
             /\ last' = Call("open_or_create", r.res, 0, None)
             /\ fails' = IF io_ok THEN fails ELSE fails + 1
    /\ UNCHANGED <<now, nextId, uiVars>>
    /\ UNCHANGED envVars

\* VaultManager::lock / drop
CoreLock ==
    /\ vault # None
    /\ vault' = None
    /\ last' = Call("lock", "Ok", 0, None)
    /\ UNCHANGED <<disk, now, nextId, fails, uiVars>>
    /\ UNCHANGED envVars

\* records a caller may pass: built by Secret::new, then fields set freely
ArgSecrets(id, t) ==
    {[SecretNew(<<"a">>, <<"b">>, id, t) EXCEPT !.notes = Some(<<"b">>)],
     [SecretNew(<<"b">>, <<"a">>, id, t) EXCEPT !.username = Some(<<"a">>),
                                                !.tags = << <<"a">> >>]}

CoreAdd ==
    /\ vault # None
    /\ Len(list(Unwrap(vault))) < CoreSecrets
    /\ nextId < MaxIds
    /\ \E t \in ClockReads, io_ok \in IoOutcomes :
         \E s \in ArgSecrets(nextId + 1, t) :
           LET r == add(Unwrap(vault), disk, s, io_ok)
           IN  /\ vault' = Some(r.mgr)
               /\ disk' = r.disk
               /\ last' = Call("add", r.res, s.id, Some(s))
               /\ fails' = Failed(r.res)
               /\ now' = t
    /\ nextId' = nextId + 1
    /\ UNCHANGED uiVars
    /\ UNCHANGED envVars

\* update(id, new) called with any id and a record carrying any id and
\* created_at
UpdateCall ==
    \E id \in 1..MaxIds, aid \in {1, nextId + 1}, ct \in {0, now},
       t \in ClockReads, io_ok \in IoOutcomes :
      \E s \in ArgSecrets(aid, ct) :
        LET r == update(Unwrap(vault), disk, id, s, t, io_ok)
        IN  /\ vault' = Some(r.mgr)
            /\ disk' = r.disk
            /\ last' = Call("update", r.res, id, Some(s))
            /\ fails' = Failed(r.res)
            /\ now' = IF r.res = "NotFound" THEN now ELSE t

CoreUpdate ==
    /\ vault # None
    /\ UpdateCall
    /\ UNCHANGED <<nextId, uiVars>>
    /\ UNCHANGED envVars

CoreDelete ==
    /\ vault # None
    /\ \E id \in 1..MaxIds, io_ok \in IoOutcomes :
         LET r == delete(Unwrap(vault), disk, id, io_ok)
         IN  /\ vault' = Some(r.mgr)
             /\ disk' = r.disk
             /\ last' = Call("delete", r.res, id, None)
             /\ fails' = Failed(r.res)
    /\ UNCHANGED <<now, nextId, uiVars>>
    /\ UNCHANGED envVars

CoreNext ==
    \/ CoreOpenOrCreate
    \/ CoreLock
    \/ CoreAdd
    \/ CoreUpdate
    \/ CoreDelete

InitCore == InitWith(CoreSecrets) /\ pc = "keys"

SpecCore == InitCore /\ [][CoreNext]_vars

(* ------------------- direct use of the generator ---------------------- *)

\* the configurations a caller may hand to generate
GeneratorConfigs ==
    {GeneratorConfig(n, u, l, d, y) : n \in 0..MaxLen, u \in BOOLEAN,
                                      l \in BOOLEAN, d \in BOOLEAN, y \in BOOLEAN}

GenGenerate ==
    /\ gen_result = None
    /\ \E picks \in Picks(gen_config) :
         gen_result' = Some(generate(gen_config, picks))
    /\ UNCHANGED <<disk, vault, now, nextId, fails, last, uiVars>>
    /\ UNCHANGED <<clipboard_clear_at, clipboard, mono, pc, term, gen_config>>

\* the caller drops the result and builds another configuration
GenConfigure ==
    /\ gen_result # None
    /\ gen_config' \in GeneratorConfigs
    /\ gen_result' = None
    /\ UNCHANGED <<disk, vault, now, nextId, fails, last, uiVars>>
    /\ UNCHANGED <<clipboard_clear_at, clipboard, mono, pc, term>>

GenNext == GenGenerate \/ GenConfigure

InitGen ==
    /\ disk = None /\ vault = None
    /\ now = 0 /\ nextId = 0 /\ fails = 0
    /\ last = NoCall
    /\ view = Locked(<<>>, None)
    /\ should_quit = FALSE /\ status = None
    /\ clipboard_clear_at = None /\ clipboard = OtherText
    /\ mono = 0 /\ pc = "keys" /\ term = Cooked
    /\ gen_config \in GeneratorConfigs
    /\ gen_result = None

SpecGen == InitGen /\ [][GenNext]_vars

(* =========================== the session ============================== *)
\* One action per arm of the key handlers of events.rs.  The session loop
\* dispatches no key once should_quit is set (mod.rs 66-68).  pc = "keys"
\* stands for the dispatcher driven key by key without the loop around it.

\* handle_key is being called: by run_loop between poll and the clipboard
\* check (mod.rs 49-53), or by a caller that drives the dispatcher directly
Running == ~should_quit /\ pc \in {"keys", "poll"}

\* what every arm but the clipboard one leaves alone, and where the caller
\* of handle_key goes on
KeyFrame ==
    /\ pc' = IF pc = "poll" THEN "clip" ELSE pc
    /\ UNCHANGED <<clipboard_clear_at, clipboard, mono, term, gen_config, gen_result>>

\* Ctrl-C that also drops the manager
CtrlC_locking ==
    /\ Running
    /\ should_quit' = TRUE
    /\ vault' = None
    /\ last' = NoCall
    /\ UNCHANGED <<disk, now, nextId, fails, view, status>>
    /\ KeyFrame

\* handle_key: Ctrl-C in any view
CtrlC ==
    /\ Running
    /\ should_quit' = TRUE
    /\ last' = NoCall
    /\ UNCHANGED <<disk, vault, now, nextId, fails, view, status>>
    /\ KeyFrame

(* ------------------------------ Locked -------------------------------- *)

LockedChar ==
    /\ Running /\ view.tag = "Locked"
    /\ Len(view.input) < MaxInput
    /\ \E c \in Chars : view' = Locked(Append(view.input, c), None)
    /\ last' = NoCall
    /\ UNCHANGED <<disk, vault, now, nextId, fails, should_quit, status>>
    /\ KeyFrame

LockedBackspace ==
    /\ Running /\ view.tag = "Locked"
    /\ view' = [view EXCEPT !.input = Pop(@)]
    /\ last' = NoCall
    /\ UNCHANGED <<disk, vault, now, nextId, fails, should_quit, status>>
    /\ KeyFrame

\* Enter that tells an unreadable or unwritable file from a wrong password
LockedEnter_telling_cause ==
    /\ Running /\ view.tag = "Locked"
    /\ \E io_ok \in IoOutcomes :
         LET r == open_or_create(disk, view.input, io_ok)
         IN  /\ disk' = r.disk
             /\ last' = Call("open_or_create", r.res, 0, None)
             /\ fails' = IF io_ok THEN fails ELSE fails + 1
             /\ IF r.res = "Ok"
                THEN /\ vault' = r.mgr
                     /\ view' = go_to_list
                ELSE /\ vault' = vault
                     /\ view' = Locked(<<>>, Some(IF io_ok THEN "Wrong password"
                                                  ELSE "Vault file unavailable"))
    /\ UNCHANGED <<now, nextId, should_quit, status>>
    /\ KeyFrame

\* handle_locked, Enter
\* Enter that opens the list without keeping the manager
LockedEnter_not_storing ==
    /\ Running /\ view.tag = "Locked"
    /\ \E io_ok \in IoOutcomes :
         LET r == open_or_create(disk, view.input, io_ok)
         IN  /\ disk' = r.disk
             /\ last' = Call("open_or_create", r.res, 0, None)
             /\ fails' = IF io_ok THEN fails ELSE fails + 1
             /\ vault' = vault
             /\ IF r.res = "Ok"
                THEN view' = go_to_list
                ELSE view' = Locked(<<>>, Some("Wrong password or corrupted vault"))
    /\ UNCHANGED <<now, nextId, should_quit, status>>
    /\ KeyFrame

LockedEnter ==
    /\ Running /\ view.tag = "Locked"
    /\ \E io_ok \in IoOutcomes :
         LET r == open_or_create(disk, view.input, io_ok)
         IN  /\ disk' = r.disk
             /\ last' = Call("open_or_create", r.res, 0, None)
             /\ fails' = IF io_ok THEN fails ELSE fails + 1
             /\ IF r.res = "Ok"
                THEN /\ vault' = r.mgr
                     /\ view' = go_to_list
                ELSE /\ vault' = vault
                     /\ view' = Locked(<<>>, Some("Wrong password or corrupted vault"))
    /\ UNCHANGED <<now, nextId, should_quit, status>>
    /\ KeyFrame

LockedEsc ==
    /\ Running /\ view.tag = "Locked"
    /\ should_quit' = TRUE
    /\ last' = NoCall
    /\ UNCHANGED <<disk, vault, now, nextId, fails, view, status>>
    /\ KeyFrame

(* ------------------------------- List --------------------------------- *)

\* what handle_list computes before it looks at the key
Filtered == search(Unwrap(vault), view.search_query)
Count == IF vault = None THEN 0 ELSE Len(Filtered)
\* the id of the entry the selection designates
SelectedId == Filtered[Min(view.selected_idx, Count - 1) + 1].id

InList == Running /\ view.tag = "List"

ListQuit ==
    /\ InList
    /\ should_quit' = TRUE
    /\ status' = None
    /\ last' = NoCall
    /\ UNCHANGED <<disk, vault, now, nextId, fails, view>>
    /\ KeyFrame

ListHelp ==
    /\ InList
    /\ view' = Help
    /\ status' = None
    /\ last' = NoCall
    /\ UNCHANGED <<disk, vault, now, nextId, fails, should_quit>>
    /\ KeyFrame

ListDown ==
    /\ InList
    /\ view' = IF Count > 0
               THEN [view EXCEPT !.selected_idx = Min(@ + 1, Count - 1)]
               ELSE view
    /\ status' = None
    /\ last' = NoCall
    /\ UNCHANGED <<disk, vault, now, nextId, fails, should_quit>>
    /\ KeyFrame

ListUp ==
    /\ InList
    /\ view' = IF view.selected_idx > 0
               THEN [view EXCEPT !.selected_idx = @ - 1]
               ELSE view
    /\ status' = None
    /\ last' = NoCall
    /\ UNCHANGED <<disk, vault, now, nextId, fails, should_quit>>
    /\ KeyFrame

\* views/list.rs render: the row of the filtered list that is highlighted
Highlighted == Min(view.selected_idx, SatSub(Count, 1))

\* Enter that always opens the first entry of the filtered list
ListEnter_opening_first ==
    /\ InList
    /\ view' = IF Count > 0 THEN Detail(Filtered[1].id, FALSE) ELSE view
    /\ status' = None
    /\ last' = NoCall
    /\ UNCHANGED <<disk, vault, now, nextId, fails, should_quit>>
    /\ KeyFrame

ListEnter ==
    /\ InList
    /\ view' = IF Count > 0 THEN Detail(SelectedId, FALSE) ELSE view
    /\ status' = None
    /\ last' = NoCall
    /\ UNCHANGED <<disk, vault, now, nextId, fails, should_quit>>
    /\ KeyFrame

ListNew ==
    /\ InList
    /\ view' = Form(FormAdd, DraftEmpty, 0, FALSE, None)
    /\ status' = None
    /\ last' = NoCall
    /\ UNCHANGED <<disk, vault, now, nextId, fails, should_quit>>
    /\ KeyFrame

ListDelete ==
    /\ InList
    /\ IF Count > 0
       THEN \E io_ok \in IoOutcomes :
              LET id == SelectedId
                  r == delete(Unwrap(vault), disk, id, io_ok)
                  new_count == Len(list(r.mgr))
              IN  /\ vault' = Some(r.mgr)
                  /\ disk' = r.disk
                  /\ fails' = Failed(r.res)
                  /\ last' = Call("delete", r.res, id, None)
                  /\ view' = [view EXCEPT
                                !.selected_idx = Min(@, SatSub(new_count, 1))]
                  /\ status' = Some("Secret deleted.")
       ELSE /\ status' = None
            /\ last' = NoCall
            /\ UNCHANGED <<disk, vault, fails, view>>
    /\ UNCHANGED <<now, nextId, should_quit>>
    /\ KeyFrame

ListBackspace ==
    /\ InList
    /\ view' = List(Pop(view.search_query), 0)
    /\ status' = None
    /\ last' = NoCall
    /\ UNCHANGED <<disk, vault, now, nextId, fails, should_quit>>
    /\ KeyFrame

\* a dispatcher with a search-input mode: once the query is not empty every
\* character is typed into it
ListKey_search_mode(c) ==
    IF /\ c \in {"q", "?", "j", "k", "n", "d"}
       /\ view.tag = "List" => view.search_query = <<>>
    THEN CASE c = "q" -> ListQuit
           [] c = "?" -> ListHelp
           [] c = "j" -> ListDown
           [] c = "k" -> ListUp
           [] c = "n" -> ListNew
           [] c = "d" -> ListDelete
    ELSE /\ InList
         /\ Len(view.search_query) < MaxQuery
         /\ view' = List(Append(view.search_query, c), 0)
         /\ status' = None
         /\ last' = NoCall
         /\ UNCHANGED <<disk, vault, now, nextId, fails, should_quit>>
         /\ KeyFrame

\* handle_list on KeyCode::Char(c): the arms of the match in their order,
\* the last one being Char(c), which types c into the query
ListKey(c) ==
    CASE c = "q" -> ListQuit
      [] c = "?" -> ListHelp
      [] c = "j" -> ListDown
      [] c = "k" -> ListUp
      [] c = "n" -> ListNew
      [] c = "d" -> ListDelete
      [] OTHER ->
           /\ InList
           /\ Len(view.search_query) < MaxQuery
           /\ view' = List(Append(view.search_query, c), 0)
           /\ status' = None
           /\ last' = NoCall
           /\ UNCHANGED <<disk, vault, now, nextId, fails, should_quit>>
           /\ KeyFrame

\* a printable character typed in the list
ListChar == \E c \in Chars \cup {"q", "?", "j", "k", "n", "d"} : ListKey(c)

ListEsc ==
    /\ InList
    /\ view' = [view EXCEPT !.search_query = <<>>]
    /\ status' = None
    /\ last' = NoCall
    /\ UNCHANGED <<disk, vault, now, nextId, fails, should_quit>>
    /\ KeyFrame

\* any key handle_list has no arm for (Tab, Left, ...)
ListOther ==
    /\ InList
    /\ status' = None
    /\ last' = NoCall
    /\ UNCHANGED <<disk, vault, now, nextId, fails, view, should_quit>>
    /\ KeyFrame

(* ------------------------------ Detail -------------------------------- *)
\* The clipboard arm (c) touches neither the document nor the view; it is
\* part of the looping session below, where the clipboard is cleared again.

InDetail == Running /\ view.tag = "Detail"

DetailBack ==
    /\ InDetail
    /\ view' = go_to_list
    /\ status' = None
    /\ last' = NoCall
    /\ UNCHANGED <<disk, vault, now, nextId, fails, should_quit>>
    /\ KeyFrame

DetailHelp ==
    /\ InDetail
    /\ view' = Help
    /\ status' = None
    /\ last' = NoCall
    /\ UNCHANGED <<disk, vault, now, nextId, fails, should_quit>>
    /\ KeyFrame

DetailSpace ==
    /\ InDetail
    /\ view' = [view EXCEPT !.show_password = ~@]
    /\ status' = None
    /\ last' = NoCall
    /\ UNCHANGED <<disk, vault, now, nextId, fails, should_quit>>
    /\ KeyFrame

DetailEdit ==
    /\ InDetail
    /\ LET found == IF vault = None THEN None
                    ELSE get(Unwrap(vault), view.secret_id)
       IN  view' = IF IsSome(found)
                   THEN Form(FormEdit(view.secret_id), from_secret(Unwrap(found)),
                             0, FALSE, None)
                   ELSE view
    /\ status' = None
    /\ last' = NoCall
    /\ UNCHANGED <<disk, vault, now, nextId, fails, should_quit>>
    /\ KeyFrame

DetailDelete ==
    /\ InDetail
    /\ IF vault # None
       THEN \E io_ok \in IoOutcomes :
              LET r == delete(Unwrap(vault), disk, view.secret_id, io_ok)
              IN  /\ vault' = Some(r.mgr)
                  /\ disk' = r.disk
                  /\ fails' = Failed(r.res)
                  /\ last' = Call("delete", r.res, view.secret_id, None)
                  /\ IF r.res = "Ok"
                     THEN /\ view' = go_to_list
                          /\ status' = Some("Secret deleted.")
                     ELSE /\ view' = view
                          /\ status' = None
       ELSE /\ status' = None
            /\ last' = NoCall
            /\ UNCHANGED <<disk, vault, fails, view>>
    /\ UNCHANGED <<now, nextId, should_quit>>
    /\ KeyFrame

\* a reading of Instant::now(): never before the previous reading
MonoReads == {t \in mono..(mono + 1) : t <= MaxMono}

\* what arboard may answer: the text is set, set_text fails, or
\* Clipboard::new fails
ClipboardOutcomes == {"set", "set_failed", "unavailable"}

\* a copy that forgets the pending deadline when the clipboard refuses
CopyTo_dropping_deadline(cb, pwd) ==
    /\ IF cb = "set"
       THEN \E t \in MonoReads :
              /\ clipboard' = pwd
              /\ clipboard_clear_at' = Some(t + CLIPBOARD_TIMEOUT)
              /\ mono' = t
              /\ status' = Some("Password copied - clears in 30s")
       ELSE /\ status' = Some(IF cb = "set_failed"
                              THEN "Failed to copy to clipboard"
                              ELSE "Clipboard not available")
            /\ clipboard_clear_at' = None
            /\ UNCHANGED <<clipboard, mono>>
    /\ last' = Call("copy", cb, view.secret_id, None)

\* handle_detail, c with a record that was found and a clipboard answering
\* cb (the status text has an em dash where this one has "-"); `last` keeps
\* the clipboard's answer
CopyTo(cb, pwd) ==
    /\ IF cb = "set"
       THEN \E t \in MonoReads :
              /\ clipboard' = pwd
              /\ clipboard_clear_at' = Some(t + CLIPBOARD_TIMEOUT)
              /\ mono' = t
              /\ status' = Some("Password copied - clears in 30s")
       ELSE /\ status' = Some(IF cb = "set_failed"
                              THEN "Failed to copy to clipboard"
                              ELSE "Clipboard not available")
            /\ UNCHANGED <<clipboard, clipboard_clear_at, mono>>
    /\ last' = Call("copy", cb, view.secret_id, None)

\* handle_detail, c
DetailCopy ==
    /\ InDetail
    /\ LET found == IF vault = None THEN None
                    ELSE get(Unwrap(vault), view.secret_id)
       IN  IF IsSome(found)
           THEN \E cb \in ClipboardOutcomes : CopyTo(cb, Unwrap(found).password)
           ELSE /\ status' = None
                /\ last' = NoCall
                /\ UNCHANGED <<clipboard, clipboard_clear_at, mono>>
    /\ pc' = IF pc = "poll" THEN "clip" ELSE pc
    /\ UNCHANGED <<disk, vault, now, nextId, fails, view, should_quit>>
    /\ UNCHANGED <<term, gen_config, gen_result>>

\* any key handle_detail has no arm for
DetailOther ==
    /\ InDetail
    /\ status' = None
    /\ last' = NoCall
    /\ UNCHANGED <<disk, vault, now, nextId, fails, view, should_quit>>
    /\ KeyFrame

(* ------------------------ list view (views/list.rs) ------------------- *)

\* render: the status bar, drawn when Instant::now() reads t (a tick of mono
\* is 10 s).  Either the transient status alone, or the shortcut hint
\* followed by "  [clipboard clears in Ns]" when a deadline is set: clip is
\* that N, if the text is there.  (The hint is spelled without the arrow
\* glyphs of the source.)
ListStatusBar(t) ==
    LET clipboard_secs_remaining ==
            IF IsSome(clipboard_clear_at)
            THEN Some(IF Unwrap(clipboard_clear_at) > t
                      THEN (Unwrap(clipboard_clear_at) - t) * 10
                      ELSE 0)
            ELSE None
    IN  IF IsSome(status)
        THEN [text |-> Unwrap(status), clip |-> None]
        ELSE [text |-> "[jk] Navigate  [Enter] Open  [n] New  [d] Delete  [q] Quit  [?] Help",
              clip |-> clipboard_secs_remaining]

(* ------------------------------- Form --------------------------------- *)
\* Keys without an arm in handle_locked, handle_form and handle_help change
\* nothing: they are stuttering steps (LoopNoKey when the loop is modelled).

InForm == Running /\ view.tag = "Form"

\* Esc that always goes back to the list
FormEsc_always_to_list ==
    /\ InForm
    /\ view' = go_to_list
    /\ last' = NoCall
    /\ UNCHANGED <<disk, vault, now, nextId, fails, should_quit, status>>
    /\ KeyFrame

FormEsc ==
    /\ InForm
    /\ view' = IF view.mode.kind = "Add"
               THEN go_to_list
               ELSE Detail(view.mode.id, FALSE)
    /\ last' = NoCall
    /\ UNCHANGED <<disk, vault, now, nextId, fails, should_quit, status>>
    /\ KeyFrame

FormTab ==
    /\ InForm
    /\ view' = [view EXCEPT !.focused_field = (@ + 1) % FORM_FIELD_COUNT]
    /\ last' = NoCall
    /\ UNCHANGED <<disk, vault, now, nextId, fails, should_quit, status>>
    /\ KeyFrame

\* Shift-Tab without the reduction modulo the number of fields
FormBackTab_unreduced ==
    /\ InForm
    /\ view.focused_field < FORM_FIELD_COUNT
    /\ view' = [view EXCEPT !.focused_field = @ + FORM_FIELD_COUNT - 1]
    /\ last' = NoCall
    /\ UNCHANGED <<disk, vault, now, nextId, fails, should_quit, status>>
    /\ KeyFrame

FormBackTab ==
    /\ InForm
    /\ view' = [view EXCEPT
                  !.focused_field = (@ + FORM_FIELD_COUNT - 1) % FORM_FIELD_COUNT]
    /\ last' = NoCall
    /\ UNCHANGED <<disk, vault, now, nextId, fails, should_quit, status>>
    /\ KeyFrame

\* type_char
FormChar ==
    /\ InForm
    /\ DraftSize(view.draft) < MaxDraft
    /\ \E c \in Chars :
         view' = [view EXCEPT !.error = None,
                              !.draft[FieldName(view.focused_field)] = Append(@, c)]
    /\ last' = NoCall
    /\ UNCHANGED <<disk, vault, now, nextId, fails, should_quit, status>>
    /\ KeyFrame

\* (a field longer than MaxDraft, a generated password, is not cut back
\* character by character)
FormBackspace ==
    /\ InForm
    /\ Len(view.draft[FieldName(view.focused_field)]) <= MaxDraft
    /\ view' = [view EXCEPT !.error = None,
                            !.draft[FieldName(view.focused_field)] = Pop(@)]
    /\ last' = NoCall
    /\ UNCHANGED <<disk, vault, now, nextId, fails, should_quit, status>>
    /\ KeyFrame

\* save_form, reached by Enter
FormEnter ==
    /\ InForm
    /\ IF IsSome(validate(view.draft))
       THEN /\ view' = [view EXCEPT !.error = validate(view.draft)]
            /\ last' = NoCall
            /\ UNCHANGED <<disk, vault, now, nextId, fails, status>>
       ELSE /\ nextId < MaxIds
            /\ (vault # None /\ view.mode.kind = "Add") =>
                    Len(list(Unwrap(vault))) < MaxSecrets
            /\ nextId' = nextId + 1
            /\ \E t1 \in ClockReads :
                 LET secret == BuildSecret(view.draft, nextId + 1, t1)
                 IN  IF vault = None
                     THEN /\ now' = t1
                          /\ last' = NoCall
                          /\ UNCHANGED <<disk, vault, fails, view, status>>
                     ELSE \E io_ok \in IoOutcomes :
                          \E t2 \in {t \in t1..(t1 + 1) : t <= MaxTime} :
                            LET adding == view.mode.kind = "Add"
                                r == IF adding
                                     THEN add(Unwrap(vault), disk, secret, io_ok)
                                     ELSE update(Unwrap(vault), disk, view.mode.id,
                                                 secret, t2, io_ok)
                                touched == ~adding /\ r.res # "NotFound"
                            IN  /\ (~touched) => t2 = t1
                                /\ now' = t2
                                /\ vault' = Some(r.mgr)
                                /\ disk' = r.disk
                                /\ fails' = Failed(r.res)
                                /\ last' = Call(IF adding THEN "add" ELSE "update",
                                                r.res,
                                                IF adding THEN secret.id
                                                ELSE view.mode.id,
                                                Some(secret))
                                /\ IF r.res = "Ok"
                                   THEN /\ view' = go_to_list
                                        /\ status' = Some("Secret saved.")
                                   ELSE /\ view' = [view EXCEPT
                                                      !.error = Some(SaveFailed(r.res))]
                                        /\ status' = status
    /\ UNCHANGED should_quit
    /\ KeyFrame

(* ------------------------------- Help --------------------------------- *)

HelpBack ==
    /\ Running /\ view.tag = "Help"
    /\ view' = go_to_list
    /\ last' = NoCall
    /\ UNCHANGED <<disk, vault, now, nextId, fails, should_quit, status>>
    /\ KeyFrame

Next ==
    \/ CtrlC
    \/ LockedChar \/ LockedBackspace \/ LockedEnter \/ LockedEsc
    \/ ListQuit \/ ListHelp \/ ListDown \/ ListUp \/ ListEnter \/ ListNew
    \/ ListDelete \/ ListBackspace \/ ListChar \/ ListEsc \/ ListOther
    \/ DetailBack \/ DetailHelp \/ DetailSpace \/ DetailEdit \/ DetailDelete
    \/ DetailOther
    \/ FormEsc \/ FormTab \/ FormBackTab \/ FormChar \/ FormBackspace \/ FormEnter
    \/ HelpBack

Init == InitWith(MaxSecrets) /\ pc = "keys"

Spec == Init /\ [][Next]_vars

\* the draws of the generator a session sees: the first character of the
\* charset, every time
SessionPicks == {[i \in 1..DEFAULT_LENGTH |-> 0]}

\* g that is typed into the password field like any character
FormGenerate_typing_g ==
    /\ InForm
    /\ view.focused_field = 2
    /\ view' = [view EXCEPT !.error = None,
                            !.draft.password = Append(@, "g")]
    /\ last' = NoCall
    /\ UNCHANGED <<disk, vault, now, nextId, fails, should_quit, status>>
    /\ KeyFrame

\* handle_form, g with the password field focused: a generated password
\* replaces the draft's (FormTypeG is the other branch)
FormGenerate ==
    /\ InForm
    /\ view.focused_field = 2
    /\ \E picks \in SessionPicks :
         LET r == generate(GeneratorConfigDefault, picks)
         IN  view' = IF r.res = "Ok"
                     THEN [view EXCEPT !.draft.password = r.password]
                     ELSE view
    /\ last' = NoCall
    /\ UNCHANGED <<disk, vault, now, nextId, fails, should_quit, status>>
    /\ KeyFrame

\* handle_form, g with any other field focused: type_char('g')
FormTypeG ==
    /\ InForm
    /\ view.focused_field # 2
    /\ DraftSize(view.draft) < MaxDraft
    /\ view' = [view EXCEPT
                  !.error = None,
                  !.draft[FieldName(view.focused_field)] = Append(@, "g")]
    /\ last' = NoCall
    /\ UNCHANGED <<disk, vault, now, nextId, fails, should_quit, status>>
    /\ KeyFrame

\* handle_form, space: shows or hides the password when the password field
\* is focused, a blank anywhere else
FormSpace ==
    /\ InForm
    /\ IF view.focused_field = 2
       THEN view' = [view EXCEPT !.show_password = ~@]
       ELSE /\ DraftSize(view.draft) < MaxDraft
            /\ view' = [view EXCEPT
                          !.error = None,
                          !.draft[FieldName(view.focused_field)] = Append(@, " ")]
    /\ last' = NoCall
    /\ UNCHANGED <<disk, vault, now, nextId, fails, should_quit, status>>
    /\ KeyFrame

\* the session on a keyboard that also has g and the space bar
NextFresh == Next \/ FormGenerate \/ FormSpace

\* a session that starts without a vault file or on an empty vault
InitFresh ==
    /\ disk \in {None, File(CURRENT_VERSION, <<>>)}
    /\ vault = None
    /\ now = MaxTime
    /\ nextId = MaxIds - FreshSaves
    /\ fails = 0
    /\ last = NoCall
    /\ view = Locked(<<>>, None)
    /\ should_quit = FALSE
    /\ status = None
    /\ clipboard_clear_at = None
    /\ clipboard = OtherText
    /\ mono = 0
    /\ term = Cooked
    /\ gen_config = GeneratorConfigDefault
    /\ gen_result = None
    /\ pc = "keys"

SpecFresh == InitFresh /\ [][NextFresh]_vars

\* the session on a keyboard with g and the space bar on every field
NextForm == NextFresh \/ FormTypeG

\* a session on a vault of LoopSecrets records that saves nothing: no id is
\* left for Secret::new
InitForm ==
    /\ disk = File(CURRENT_VERSION, SubSeq(SampleSecrets, 1, LoopSecrets))
    /\ vault = None
    /\ now = MaxTime
    /\ nextId = MaxIds
    /\ fails = MaxFails
    /\ last = NoCall
    /\ view = Locked(<<>>, None)
    /\ should_quit = FALSE
    /\ status = None
    /\ clipboard_clear_at = None
    /\ clipboard = OtherText
    /\ mono = 0
    /\ term = Cooked
    /\ gen_config = GeneratorConfigDefault
    /\ gen_result = None
    /\ pc = "keys"

SpecForm == InitForm /\ [][NextForm]_vars

\* a session on an empty vault with ids for two more records
InitRetry ==
    /\ disk = File(CURRENT_VERSION, <<>>)
    /\ vault = None
    /\ now = MaxTime
    /\ nextId = MaxIds - 2
    /\ fails = 0
    /\ last = NoCall
    /\ view = Locked(<<>>, None)
    /\ should_quit = FALSE
    /\ status = None
    /\ clipboard_clear_at = None
    /\ clipboard = OtherText
    /\ mono = 0
    /\ term = Cooked
    /\ gen_config = GeneratorConfigDefault
    /\ gen_result = None
    /\ pc = "keys"

SpecRetry == InitRetry /\ [][Next]_vars

\* the keys typed into the tags field: a letter, a comma, a blank
TagKeys == Chars \cup {",", " "}

\* handle_form with the tags field focused: Char(c) and the blank both end
\* in type_char
FormTagsKey ==
    /\ InForm
    /\ view.focused_field = 4
    /\ Len(view.draft.tags) < MaxTags
    /\ \E c \in TagKeys :
         view' = [view EXCEPT !.error = None,
                              !.draft.tags = Append(@, c)]
    /\ last' = NoCall
    /\ UNCHANGED <<disk, vault, now, nextId, fails, should_quit, status>>
    /\ KeyFrame

\* the session on a keyboard that also has the comma and the space bar for
\* the tags field
NextTags == Next \/ FormTagsKey

\* a session on an empty vault, with room for one more record
InitTags ==
    /\ disk = File(CURRENT_VERSION, <<>>)
    /\ vault = None
    /\ now = MaxTime
    /\ nextId = MaxIds - 1
    /\ fails = 0
    /\ last = NoCall
    /\ view = Locked(<<>>, None)
    /\ should_quit = FALSE
    /\ status = None
    /\ clipboard_clear_at = None
    /\ clipboard = OtherText
    /\ mono = 0
    /\ term = Cooked
    /\ gen_config = GeneratorConfigDefault
    /\ gen_result = None
    /\ pc = "keys"

SpecTags == InitTags /\ [][NextTags]_vars

\* a form in Add mode, on an empty vault, into which the user has typed a
\* valid draft: names with blanks around, optional fields empty, blank or a
\* letter, tags any text of letters, commas and blanks up to MaxTags long
InitRoundTrip ==
    /\ disk = File(CURRENT_VERSION, <<>>)
    /\ vault = Some(Manager(GoodPw, [version |-> CURRENT_VERSION, secrets |-> <<>>]))
    /\ now = MaxTime - 1
    /\ nextId = MaxIds - 2
    /\ fails = 0
    /\ last = NoCall
    /\ \E name \in {<<"a">>, <<" ", "a">>, <<"a", " ">>} :
       \E username, url, notes \in {<<>>, <<"a">>, <<" ">>} :
       \E tags \in UNION {[1..k -> TagKeys] : k \in 0..MaxTags} :
          view = Form(FormAdd,
                      [name |-> name, username |-> username, password |-> GoodPw,
                       url |-> url, tags |-> tags, notes |-> notes],
                      0, FALSE, None)
    /\ should_quit = FALSE
    /\ status = None
    /\ clipboard_clear_at = None
    /\ clipboard = OtherText
    /\ mono = 0
    /\ term = Cooked
    /\ gen_config = GeneratorConfigDefault
    /\ gen_result = None
    /\ pc = "keys"

\* the keys that save a record and save it again unedited: Enter in the
\* form, Enter in the list, e in the detail view
NextRoundTrip == FormEnter \/ ListEnter \/ DetailEdit

SpecRoundTrip == InitRoundTrip /\ [][NextRoundTrip]_vars

\* update called by code other than the form, while the list is showing; the
\* record it passes was built by Secret::new and uses up an id
DirectUpdate ==
    /\ InList
    /\ vault # None
    /\ nextId < MaxIds
    /\ UpdateCall
    /\ nextId' = nextId + 1
    /\ UNCHANGED uiVars
    /\ UNCHANGED envVars

\* the session, with the Vault Manager's update also called directly
NextWithUpdate == Next \/ DirectUpdate

SpecWithUpdate == Init /\ [][NextWithUpdate]_vars

(* ==================== run and run_loop (mod.rs) ======================= *)
\* pc: "start", "enter", "backend" are the setup steps of run; "poll" is the
\* top of a loop iteration (draw, poll, read, dispatch), "clip" its end (the
\* clipboard and should_quit checks); "restore", "leave", "cursor" are the
\* restore steps; "done" is run returning after the last restore step,
\* "failed" run returning through a ?, "panicked" the unwinding of a panic.

\* what the loop's own steps leave alone
LoopFrame ==
    /\ last' = NoCall
    /\ UNCHANGED <<disk, vault, now, nextId, fails, view, should_quit>>
    /\ UNCHANGED <<gen_config, gen_result>>

\* enable_raw_mode()?
RunEnableRaw ==
    /\ pc = "start"
    /\ \E ok \in BOOLEAN :
         IF ok THEN term' = [term EXCEPT !.raw = TRUE] /\ pc' = "enter"
         ELSE term' = term /\ pc' = "failed"
    /\ LoopFrame
    /\ UNCHANGED <<status, clipboard, clipboard_clear_at, mono>>

\* execute!(stdout, EnterAlternateScreen, EnableMouseCapture)?
RunEnterScreen ==
    /\ pc = "enter"
    /\ \E done \in 0..2 :
         /\ term' = [term EXCEPT !.alt = done >= 1, !.mouse = done >= 2]
         /\ pc' = IF done = 2 THEN "backend" ELSE "failed"
    /\ LoopFrame
    /\ UNCHANGED <<status, clipboard, clipboard_clear_at, mono>>

\* Terminal::new(backend)?, then AppState::new
RunNewTerminal ==
    /\ pc = "backend"
    /\ \E ok \in BOOLEAN : pc' = IF ok THEN "poll" ELSE "failed"
    /\ LoopFrame
    /\ UNCHANGED <<status, clipboard, clipboard_clear_at, mono, term>>

\* terminal.draw(|f| render(f, app))? returns an error, or render panics
LoopDrawFails ==
    /\ pc = "poll"
    /\ pc' \in {"restore", "panicked"}
    /\ LoopFrame
    /\ UNCHANGED <<status, clipboard, clipboard_clear_at, mono, term>>

\* the frame is drawn, then event::poll times out, event::read returns an
\* event that is no key, or the key is one the view's handler has no arm for
LoopNoKey ==
    /\ pc = "poll"
    /\ pc' = "clip"
    /\ LoopFrame
    /\ UNCHANGED <<status, clipboard, clipboard_clear_at, mono, term>>

\* event::poll(..)? or event::read()? returns an error
LoopInputError ==
    /\ pc = "poll"
    /\ pc' = "restore"
    /\ LoopFrame
    /\ UNCHANGED <<status, clipboard, clipboard_clear_at, mono, term>>

\* an end of iteration that never breaks out of the loop
LoopEnd_never_breaking ==
    /\ pc = "clip"
    /\ IF IsSome(clipboard_clear_at)
       THEN \E t \in MonoReads :
              /\ mono' = t
              /\ IF t >= Unwrap(clipboard_clear_at)
                 THEN /\ clipboard_clear_at' = None
                      /\ \E cb \in ClipboardOutcomes :
                           clipboard' = IF cb = "set" THEN <<>> ELSE clipboard
                      /\ status' = Some("Clipboard cleared.")
                 ELSE UNCHANGED <<clipboard_clear_at, clipboard, status>>
       ELSE UNCHANGED <<clipboard_clear_at, clipboard, status, mono>>
    /\ pc' = "poll"
    /\ LoopFrame
    /\ UNCHANGED term

\* the end of an iteration: the clipboard check, then the should_quit check
LoopEnd ==
    /\ pc = "clip"
    /\ IF IsSome(clipboard_clear_at)
       THEN \E t \in MonoReads :
              /\ mono' = t
              /\ IF t >= Unwrap(clipboard_clear_at)
                 THEN /\ clipboard_clear_at' = None
                      /\ \E cb \in ClipboardOutcomes :
                           clipboard' = IF cb = "set" THEN <<>> ELSE clipboard
                      /\ status' = Some("Clipboard cleared.")
                 ELSE UNCHANGED <<clipboard_clear_at, clipboard, status>>
       ELSE UNCHANGED <<clipboard_clear_at, clipboard, status, mono>>
    /\ pc' = IF should_quit THEN "restore" ELSE "poll"
    /\ LoopFrame
    /\ UNCHANGED term

\* disable_raw_mode()?
RestoreRaw ==
    /\ pc = "restore"
    /\ \E ok \in BOOLEAN :
         IF ok THEN term' = [term EXCEPT !.raw = FALSE] /\ pc' = "leave"
         ELSE term' = term /\ pc' = "failed"
    /\ LoopFrame
    /\ UNCHANGED <<status, clipboard, clipboard_clear_at, mono>>

\* execute!(terminal.backend_mut(), LeaveAlternateScreen, DisableMouseCapture)?
RestoreScreen ==
    /\ pc = "leave"
    /\ \E done \in 0..2 :
         /\ term' = [term EXCEPT !.alt = IF done >= 1 THEN FALSE ELSE @,
                                  !.mouse = IF done >= 2 THEN FALSE ELSE @]
         /\ pc' = IF done = 2 THEN "cursor" ELSE "failed"
    /\ LoopFrame
    /\ UNCHANGED <<status, clipboard, clipboard_clear_at, mono>>

\* terminal.show_cursor()?, then run returns the loop's result
RestoreCursor ==
    /\ pc = "cursor"
    /\ \E ok \in BOOLEAN : pc' = IF ok THEN "done" ELSE "failed"
    /\ LoopFrame
    /\ UNCHANGED <<status, clipboard, clipboard_clear_at, mono, term>>

NextLoop ==
    \/ Next
    \/ DetailCopy
    \/ RunEnableRaw \/ RunEnterScreen \/ RunNewTerminal
    \/ LoopDrawFails \/ LoopNoKey \/ LoopInputError \/ LoopEnd
    \/ RestoreRaw \/ RestoreScreen \/ RestoreCursor

\* run starts on a vault an earlier session wrote; this session saves no
\* form and its store does not fail
InitLoop ==
    /\ disk = File(CURRENT_VERSION, SubSeq(SampleSecrets, 1, LoopSecrets))
    /\ vault = None
    /\ now = 2
    /\ nextId = MaxIds
    /\ fails = MaxFails
    /\ last = NoCall
    /\ view = Locked(<<>>, None)
    /\ should_quit = FALSE
    /\ status = None
    /\ clipboard_clear_at = None
    /\ clipboard = OtherText
    /\ mono = 0
    /\ term = Cooked
    /\ gen_config = GeneratorConfigDefault
    /\ gen_result = None
    /\ pc = "start"

SpecLoop == InitLoop /\ [][NextLoop]_vars

\* run started without a vault file, with an id for one record
InitLoopFresh ==
    /\ disk = None
    /\ vault = None
    /\ now = MaxTime
    /\ nextId = MaxIds - 1
    /\ fails = 0
    /\ last = NoCall
    /\ view = Locked(<<>>, None)
    /\ should_quit = FALSE
    /\ status = None
    /\ clipboard_clear_at = None
    /\ clipboard = OtherText
    /\ mono = 0
    /\ term = Cooked
    /\ gen_config = GeneratorConfigDefault
    /\ gen_result = None
    /\ pc = "start"

SpecLoopFresh == InitLoopFresh /\ [][NextLoop]_vars

(* ====================== properties of the session ===================== *)

\* C6: in every reachable state of a session all records of the document
\* have pairwise distinct ids and each has updated_at >= created_at.
C6_DocumentInvariant ==
    vault # None =>
        LET secrets == list(Unwrap(vault))
        IN  /\ \A i, j \in 1..Len(secrets) : secrets[i].id = secrets[j].id => i = j
            /\ \A i \in 1..Len(secrets) : secrets[i].updated_at >= secrets[i].created_at

C6_Witness ==
    /\ vault # None
    /\ last.op = "add"
    /\ \E i, j \in 1..Len(list(Unwrap(vault))) :
         /\ i # j
         /\ list(Unwrap(vault))[i].id > Len(SampleSecrets)
         /\ list(Unwrap(vault))[j].id <= Len(SampleSecrets)
         /\ list(Unwrap(vault))[i].created_at > list(Unwrap(vault))[j].updated_at

\* C7: no sequence of key events makes the dispatcher call update or delete
\* with an id that is absent from the in-memory document.
C7_NotFoundUnreachable ==
    last.res # "NotFound"

\* C8: every error the Vault Manager returns for a mutation is reflected in
\* status or in the form's error field, and no success message is shown for
\* an operation that returned an error.
C8_ErrorsAreShown ==
    (last.op \in Mutations /\ last.res # "Ok") =>
        /\ status # None \/ (view.tag = "Form" /\ view.error # None)
        /\ status \notin {Some("Secret deleted."), Some("Secret saved.")}

\* C9: in the List state selected_idx lies in [0, max(count-1, 0)], count
\* being the number of results of search(search_query) on the document.
C9_SelectionInRange ==
    (view.tag = "List" /\ vault # None) =>
        view.selected_idx <= Max(Len(search(Unwrap(vault), view.search_query)) - 1, 0)

\* C11: in Locked, an Enter that fails to open or create the vault, whatever
\* the cause, leaves the view Locked with no vault stored, an empty input and
\* the error "Wrong password or corrupted vault", and nothing else changed.
C11_UnlockFailureIsUniform ==
    [][(last'.op = "open_or_create" /\ last'.res # "Ok") =>
          /\ view' = Locked(<<>>, Some("Wrong password or corrupted vault"))
          /\ vault' = None
          /\ should_quit' = should_quit
          /\ status' = status]_vars

\* the store refused to write the new vault file
C11_Witness ==
    /\ last.op = "open_or_create" /\ last.res = "Vault"
    /\ disk = None /\ fails = 1
    /\ view = Locked(<<>>, Some("Wrong password or corrupted vault"))
    /\ vault = None

\* C20: in a session that started from an empty vault, every record of the
\* document has a name that is non-empty after trimming and a non-empty
\* password, after any sequence of key events.
C20_RecordsAreValid ==
    vault # None =>
        \A i \in 1..Len(list(Unwrap(vault))) :
            /\ Trim(list(Unwrap(vault))[i].name) # <<>>
            /\ list(Unwrap(vault))[i].password # <<>>

\* a stored name that begins with a blank, with a generated password
C20_Witness ==
    /\ vault # None
    /\ last.op = "add"
    /\ \E i \in 1..Len(list(Unwrap(vault))) :
         /\ list(Unwrap(vault))[i].name = <<" ", "a">>
         /\ Len(list(Unwrap(vault))[i].password) = DEFAULT_LENGTH

C22_InvalidDraftRejected ==
    [][LET name == view.draft.name
           blank == \A i \in 1..Len(name) : name[i] = " "
       IN  (FormEnter /\ (blank \/ view.draft.password = <<>>)) =>
          /\ view' = [view EXCEPT
                        !.error = IF blank
                                  THEN Some("Name is required")
                                  ELSE Some("Password is required")]
          /\ vault' = vault
          /\ disk' = disk
          /\ fails' = fails
          /\ last' = NoCall
          /\ status' = status]_vars

\* a name made of one blank and no password: the name is reported
C22_Witness ==
    /\ view.tag = "Form"
    /\ view.draft.name = <<" ">>
    /\ view.draft.password = <<>>
    /\ view.error = Some("Name is required")
    /\ last = NoCall
    /\ vault # None

\* C24 as stated: in List with at least one filtered result, Enter or Right
\* moves to Detail with show_password = false and the id of the entry at
\* position min(selected_idx, count-1) of search(search_query), the entry
\* the list view highlights; with no filtered result the key changes
\* nothing.
C24_EnterOpensHighlighted_asStated ==
    [][ListEnter =>
          IF Count > 0
          THEN view' = Detail(Filtered[Highlighted + 1].id, FALSE)
          ELSE UNCHANGED <<view, status, vault, disk, should_quit>>]_vars

\* C24, amended: as above, but with no filtered result the key still clears
\* the transient status message, and changes nothing else.
C24_EnterOpensHighlighted ==
    [][ListEnter =>
          /\ IF Count > 0
             THEN view' = Detail(Filtered[Highlighted + 1].id, FALSE)
             ELSE view' = view
          /\ status' = None
          /\ UNCHANGED <<vault, disk, should_quit>>]_vars

\* the third of three records was opened from the list
C24_Witness ==
    /\ vault # None
    /\ Len(list(Unwrap(vault))) = 3
    /\ view = Detail(list(Unwrap(vault))[3].id, FALSE)
    /\ status = None
    /\ last = NoCall

\* C25: in List the characters q, ?, j, k, n and d always act as commands
\* and are never appended to search_query, whatever it holds; every other
\* printable character is appended to search_query and resets selected_idx
\* to 0.
C25_CommandCharacters ==
    [][\A c \in Chars \cup {"q", "?", "j", "k", "n", "d"} :
          ListKey(c) =>
            IF c \in {"q", "?", "j", "k", "n", "d"}
            THEN /\ view'.tag = "List" => view'.search_query = view.search_query
                 /\ c = "q" => should_quit'
                 /\ c = "?" => view' = Help
                 /\ c = "n" => view'.tag = "Form"
                 /\ c \in {"j", "k"} => view'.tag = "List"
                 /\ (c = "d" /\ Count > 0) => last'.op = "delete"
            ELSE view' = List(Append(view.search_query, c), 0)]_vars

\* d deleted a record while the query was not empty, and the query kept its
\* text
C25_Witness ==
    /\ last.op = "delete"
    /\ view.tag = "List"
    /\ view.search_query = <<"a">>

\* C26: in Form with the password field (index 2) focused, g replaces
\* draft.password with a generated password of the default configuration
\* (20 characters) and space toggles show_password, neither character being
\* inserted; with any other field focused g and space are appended to that
\* field like any other printable character.
C26_PasswordFieldKeys ==
    [][/\ (FormGenerate \/ FormTypeG) =>
            /\ IF view.focused_field = 2
               THEN LET pwd == view'.draft.password
                    IN  /\ Len(pwd) = DEFAULT_LENGTH
                        /\ \A i \in 1..Len(pwd) :
                              \E k \in 1..Len(Charset(GeneratorConfigDefault)) :
                                 pwd[i] = Charset(GeneratorConfigDefault)[k]
                        /\ pwd # Append(view.draft.password, "g")
                        /\ view' = [view EXCEPT !.draft.password = pwd]
               ELSE view' = [view EXCEPT
                               !.error = None,
                               !.draft[FieldName(view.focused_field)] =
                                   Append(@, "g")]
            /\ UNCHANGED <<vault, disk, status, should_quit>>
       /\ FormSpace =>
            /\ IF view.focused_field = 2
               THEN view' = [view EXCEPT !.show_password = ~@]
               ELSE view' = [view EXCEPT
                               !.error = None,
                               !.draft[FieldName(view.focused_field)] =
                                   Append(@, " ")]
            /\ UNCHANGED <<vault, disk, status, should_quit>>]_vars

\* g and a blank typed into the name, then g and the space bar on the
\* password field
C26_Witness ==
    /\ view.tag = "Form"
    /\ view.focused_field = 2
    /\ view.draft.name = <<"g", " ">>
    /\ Len(view.draft.password) = DEFAULT_LENGTH
    /\ view.show_password

\* C27: in Form focused_field is always in 0..5: Tab sets it to
\* (focus + 1) mod 6, Shift-Tab to (focus + 5) mod 6, Tab followed by
\* Shift-Tab restores the focus, six Tabs restore the focus, and no other
\* key changes it.
C27_FocusCycle ==
    [][LET tab(f) == (f + 1) % 6
           backtab(f) == (f + 5) % 6
       IN  /\ view.tag = "Form" => view.focused_field \in 0..5
           /\ view'.tag = "Form" => view'.focused_field \in 0..5
           /\ FormTab =>
                 /\ view' = [view EXCEPT !.focused_field = tab(@)]
                 /\ backtab(view'.focused_field) = view.focused_field
                 /\ tab(tab(tab(tab(tab(view'.focused_field)))))
                        = view.focused_field
           /\ FormBackTab =>
                 /\ view' = [view EXCEPT !.focused_field = backtab(@)]
                 /\ tab(view'.focused_field) = view.focused_field
           /\ (/\ view.tag = "Form" /\ view'.tag = "Form"
               /\ view'.focused_field # view.focused_field) =>
                    FormTab \/ FormBackTab]_vars

\* Shift-Tab on the first field of an empty form: the last field is focused
C27_Witness ==
    /\ view.tag = "Form"
    /\ view.focused_field = 5
    /\ view.draft = DraftEmpty
    /\ view.mode = FormAdd
    /\ vault # None /\ list(Unwrap(vault)) = <<>>

\* C28: Esc in Form discards the draft without changing the document or the
\* store: in Add mode the view becomes List, in Edit(id) mode it becomes
\* Detail with secret_id = id and show_password = false.
C28_EscDiscardsDraft ==
    [][FormEsc =>
          /\ view' = IF view.mode.kind = "Add"
                     THEN List(<<>>, 0)
                     ELSE Detail(view.mode.id, FALSE)
          /\ UNCHANGED <<vault, disk, fails, status, should_quit>>
          /\ last' = NoCall]_vars

\* Esc after a failed save in Edit mode: the detail view of a record that is
\* newer in memory than on disk
C28_Witness ==
    /\ view.tag = "Detail" /\ ~view.show_password
    /\ last = NoCall
    /\ vault # None /\ disk # None
    /\ \E i \in 1..Len(list(Unwrap(vault))) :
       \E j \in 1..Len(Unwrap(disk).data.secrets) :
          /\ list(Unwrap(vault))[i].id = view.secret_id
          /\ Unwrap(disk).data.secrets[j].id = view.secret_id
          /\ list(Unwrap(vault))[i].updated_at
                > Unwrap(disk).data.secrets[j].updated_at

\* C30: in every reachable state the vault manager is present if and only
\* if the view is not Locked: a successful Enter in Locked stores the
\* manager and moves to List with an empty query and selected_idx 0, and no
\* sequence of key events returns the view to Locked or drops the manager
\* before the session ends.
C30_ManagerIffUnlocked ==
    [][/\ (vault # None) <=> (view.tag # "Locked")
       /\ (vault' # None) <=> (view'.tag # "Locked")
       /\ (LockedEnter /\ last'.res = "Ok") =>
             /\ vault' # None
             /\ Unwrap(vault').data = Unwrap(disk').data
             /\ view' = List(<<>>, 0)
       /\ view.tag # "Locked" =>
             /\ view'.tag # "Locked"
             /\ vault' # None]_vars

\* the vault was just opened
C30_Witness ==
    /\ last.op = "open_or_create" /\ last.res = "Ok"
    /\ vault # None
    /\ Len(list(Unwrap(vault))) = MaxSecrets
    /\ view = List(<<>>, 0)

\* C31: in every reachable Detail state secret_id is the id of a record
\* present in the in-memory document (get(secret_id) is not absent), also
\* after a d in Detail whose persist step failed.
C31_DetailRecordPresent ==
    (view.tag = "Detail" /\ vault # None) =>
        IsSome(get(Unwrap(vault), view.secret_id))

\* C32: in the form in Add mode each Enter on a valid draft appends exactly
\* one record with a fresh id to the in-memory document, whether or not the
\* persist step succeeds; so a failed save followed by Enter again on the
\* same draft leaves two records with the draft's content in the document
\* and, once a save succeeds, in the store.
C32_EveryEnterAppends ==
    [][(/\ FormEnter
        /\ view.mode.kind = "Add"
        /\ validate(view.draft) = None
        /\ vault # None) =>
          LET before == list(Unwrap(vault))
              after == list(Unwrap(vault'))
          IN  /\ Len(after) = Len(before) + 1
              /\ SubSeq(after, 1, Len(before)) = before
              /\ \A i \in 1..Len(before) : before[i].id # after[Len(after)].id
              /\ after[Len(after)].name = view.draft.name
              /\ after[Len(after)].password = view.draft.password
              /\ last'.res \in {"Ok", "Vault"}
              /\ last'.res = "Ok" => Unwrap(disk').data.secrets = after
              /\ last'.res = "Vault" =>
                    /\ disk' = disk
                    /\ view'.tag = "Form" /\ view'.draft = view.draft]_vars

\* Enter after a failed save of the same draft: the record is there twice,
\* in the document and in the store
C32_Witness ==
    /\ last.op = "add" /\ last.res = "Ok"
    /\ fails = 1
    /\ vault # None /\ disk # None
    /\ Len(list(Unwrap(vault))) = 2
    /\ UserFields(list(Unwrap(vault))[1]) = UserFields(list(Unwrap(vault))[2])
    /\ list(Unwrap(vault))[1].id # list(Unwrap(vault))[2].id
    /\ Unwrap(disk).data.secrets = list(Unwrap(vault))

\* C33: every transition into List from another view (successful unlock,
\* Esc or Left in Detail, successful d in Detail, Esc in the Add form,
\* successful form save, Esc / ? / q in Help) produces search_query = "" and
\* selected_idx = 0; the query and selection List had before are never
\* restored, and Help returns to List also when it was opened from Detail.
C33_ListEnteredFresh ==
    [][/\ (view.tag # "List" /\ view'.tag = "List") =>
            /\ view' = List(<<>>, 0)
            /\ \/ LockedEnter /\ last'.res = "Ok"
               \/ DetailBack
               \/ DetailDelete /\ last'.res = "Ok"
               \/ FormEsc /\ view.mode.kind = "Add"
               \/ FormEnter /\ last'.res = "Ok"
               \/ HelpBack
       /\ (LockedEnter /\ last'.res = "Ok") => view' = List(<<>>, 0)
       /\ DetailBack => view' = List(<<>>, 0)
       /\ (DetailDelete /\ last'.op = "delete" /\ last'.res = "Ok") =>
            view' = List(<<>>, 0)
       /\ (FormEsc /\ view.mode.kind = "Add") => view' = List(<<>>, 0)
       /\ (FormEnter /\ last'.op \in {"add", "update"} /\ last'.res = "Ok") =>
            view' = List(<<>>, 0)
       /\ view.tag = "Help" => (view'.tag = "Help" \/ view' = List(<<>>, 0))]_vars

\* a record found through the query was edited and saved: the list is back
\* without the query
C33_Witness ==
    /\ last.op = "update" /\ last.res = "Ok"
    /\ view = List(<<>>, 0)
    /\ status = Some("Secret saved.")
    /\ last.id = SampleSecrets[2].id

\* C36: for every record created through the form, opening it with e in
\* Detail and pressing Enter without editing leaves name, username,
\* password, url, notes and tags (as a sequence) identical: from_secret
\* (tags joined with ", ") followed by the rebuilding of the record (tags
\* split on ',' and trimmed) is the identity on the user-facing fields, and
\* only updated_at changes.
C36_EditRoundTrip ==
    [][(/\ FormEnter
        /\ view.mode.kind = "Edit"
        /\ vault # None
        /\ IsSome(get(Unwrap(vault), view.mode.id))
        /\ view.draft = from_secret(Unwrap(get(Unwrap(vault), view.mode.id)))) =>
          LET old == Unwrap(get(Unwrap(vault), view.mode.id))
              new == Unwrap(get(Unwrap(vault'), view.mode.id))
          IN  /\ last'.op = "update"
              /\ Len(list(Unwrap(vault'))) = Len(list(Unwrap(vault)))
              /\ new.name = old.name
              /\ new.username = old.username
              /\ new.password = old.password
              /\ new.url = old.url
              /\ new.notes = old.notes
              /\ new.tags = old.tags
              /\ new.id = old.id
              /\ new.created_at = old.created_at
              /\ new.updated_at >= old.updated_at]_vars

\* a record with two tags, a name with a blank in front and a blank url was
\* saved again unedited, at a later time
C36_Witness ==
    /\ last.op = "update" /\ last.res = "Ok"
    /\ vault # None
    /\ Len(list(Unwrap(vault))) = 1
    /\ list(Unwrap(vault))[1].tags = << <<"a">>, <<"a">> >>
    /\ list(Unwrap(vault))[1].name = <<" ", "a">>
    /\ list(Unwrap(vault))[1].url = Some(<<" ">>)
    /\ list(Unwrap(vault))[1].username = None
    /\ list(Unwrap(vault))[1].updated_at > list(Unwrap(vault))[1].created_at

(* ======================= properties of the loop ======================= *)

\* C23: in Detail, c sets clipboard_clear_at to now + 30 s and status to
\* the copied message exactly when the clipboard accepted the password; when
\* the clipboard is unavailable or set_text fails a failure status is set
\* and clipboard_clear_at keeps the value it had before the key.
C23_DeadlineOnlyOnCopy ==
    [][(DetailCopy /\ vault # None
            /\ IsSome(get(Unwrap(vault), view.secret_id))) =>
          /\ last'.op = "copy"
          /\ (last'.res = "set") <=>
                /\ clipboard_clear_at' = Some(mono' + CLIPBOARD_TIMEOUT)
                /\ status' = Some("Password copied - clears in 30s")
          /\ (last'.res = "set") =>
                clipboard' = Unwrap(get(Unwrap(vault), view.secret_id)).password
          /\ (last'.res # "set") =>
                /\ status' \in {Some("Failed to copy to clipboard"),
                                Some("Clipboard not available")}
                /\ clipboard_clear_at' = clipboard_clear_at
                /\ clipboard' = clipboard]_vars

\* the clipboard refuses a second copy while the deadline of the first is
\* pending
C23_Witness ==
    /\ last.op = "copy" /\ last.res = "set_failed"
    /\ view.tag = "Detail"
    /\ IsSome(clipboard_clear_at)
    /\ Unwrap(clipboard_clear_at) > mono
    /\ clipboard = SampleSecrets[1].password
    /\ status = Some("Failed to copy to clipboard")

\* C29: the list view's status bar contains "[clipboard clears in Ns]" in
\* every state in which clipboard_clear_at is set, both when a transient
\* status message is shown and when the default shortcut hint is shown (the
\* list view is drawn at the top of every iteration of the loop).
C29_ClipboardShownInList ==
    (pc = "poll" /\ view.tag = "List" /\ vault # None
        /\ IsSome(clipboard_clear_at)) =>
            \A t \in MonoReads : IsSome(ListStatusBar(t).clip)

\* C34 as stated: the in-memory document and the stored document change
\* only on three events: Enter in Form with a valid draft, d in List with a
\* non-empty filtered result, and d in Detail; every other key event in
\* every view, and every loop iteration without a key (including the
\* clipboard clear), leaves both unchanged.
C34_DocumentFrame_asStated ==
    [][(vault' # vault \/ disk' # disk) =>
          \/ FormEnter /\ validate(view.draft) = None
          \/ ListDelete /\ Count > 0
          \/ DetailDelete]_vars

\* C34, amended: the same with a fourth event, the successful Enter in
\* Locked, which loads the document and, when there is no vault file, writes
\* an empty one to the store.
C34_DocumentFrame ==
    [][(vault' # vault \/ disk' # disk) =>
          \/ LockedEnter /\ last'.res = "Ok"
          \/ FormEnter /\ validate(view.draft) = None
          \/ ListDelete /\ Count > 0
          \/ DetailDelete]_vars

\* the loop has cleared the clipboard after a copy of the record the form
\* saved: document and store are as the save left them
C34_Witness ==
    /\ status = Some("Clipboard cleared.")
    /\ clipboard_clear_at = None
    /\ vault # None /\ disk # None
    /\ Len(list(Unwrap(vault))) = 1
    /\ Unwrap(disk).data = Unwrap(vault).data

\* C35: when the session loop exits the clipboard does not hold a password
\* copied during the session: a clipboard deadline that is still pending
\* when should_quit is set is honoured by clearing the clipboard before the
\* loop ends.
C35_ClipboardCleanOnExit ==
    (pc \in {"restore", "leave", "cursor", "done"} /\ should_quit) =>
        /\ clipboard_clear_at = None
        /\ vault # None =>
              \A i \in 1..Len(list(Unwrap(vault))) :
                 clipboard # list(Unwrap(vault))[i].password

\* C17: once the deadline of a copy is reached, the loop sets the clipboard
\* to the empty string, clears clipboard_clear_at and sets status to
\* "Clipboard cleared." by the end of the first iteration that ends at or
\* after the deadline; it never clears before the deadline.
C17_ClearedAtDeadline ==
    [][/\ (IsSome(clipboard_clear_at) /\ pc = "clip" /\ pc' # "clip"
            /\ mono' >= Unwrap(clipboard_clear_at)) =>
                /\ clipboard' = <<>>
                /\ clipboard_clear_at' = None
                /\ status' = Some("Clipboard cleared.")
       /\ (IsSome(clipboard_clear_at) /\ clipboard_clear_at' = None) =>
                mono' >= Unwrap(clipboard_clear_at)]_vars

\* the states in which run has ended
Ended == pc \in {"done", "failed", "panicked"}

\* C18: on every path by which run ends (clean quit, an error in a setup
\* step, an error inside the loop, an error in a restore step, a panic) the
\* terminal is back in its pre-session mode: raw mode off, alternate screen
\* left.
C18_TerminalRestored ==
    Ended => (~term.raw /\ ~term.alt)

\* C19: a key event sets should_quit exactly when it is Ctrl-C, Esc in
\* Locked or q in List; should_quit is never reset; the loop breaks at the
\* end of the iteration in which it was set and dispatches no key after it.
C19_QuitKeys ==
    [][/\ (should_quit' # should_quit) <=> (CtrlC \/ LockedEsc \/ ListQuit)
       /\ should_quit =>
            /\ should_quit'
            /\ pc # "poll"
            /\ pc = "clip" => pc' = "restore"
            /\ ~(Next \/ DetailCopy)]_vars

\* q or Ctrl-C in List, and run has returned
C19_Witness ==
    /\ should_quit /\ pc = "done"
    /\ view.tag = "List" /\ vault # None
    /\ term = Cooked

(* ====================== properties of the manager ===================== *)

\* the document in memory, the document on disk
Mem == Unwrap(vault).data
Stored == Unwrap(disk).data
\* the record the last call was about, before and after
Found(v, id) == Unwrap(get(Unwrap(v), id))

\* C1: whenever add, update or delete returns success, a fresh open with the
\* same password loads a document equal to the in-memory one, also after
\* earlier mutations failed to persist.
C1_SuccessMeansPersisted ==
    (last.op \in Mutations /\ last.res = "Ok") =>
        /\ vault # None
        /\ open(disk, Unwrap(vault).password, TRUE).res = "Ok"
        /\ open(disk, Unwrap(vault).password, TRUE).mgr = vault

C1_Witness ==
    /\ last.op \in Mutations /\ last.res = "Ok"
    /\ fails >= 1
    /\ Len(Mem.secrets) >= 1

\* C2: when the store's save fails during add, update or delete the call
\* returns a Vault error, the in-memory document keeps the mutation and the
\* stored document keeps its previous content.
C2_FailedSaveKeepsMutation ==
    [][(last'.op \in Mutations /\ fails' = fails + 1) =>
          /\ last'.res = "Vault"
          /\ disk' = disk
          /\ last'.op = "add" =>
                list(Unwrap(vault')) = Append(list(Unwrap(vault)), Unwrap(last'.arg))
          /\ last'.op = "update" =>
                /\ get(Unwrap(vault'), last'.id) # None
                /\ UserFields(Found(vault', last'.id)) = UserFields(Unwrap(last'.arg))
          /\ last'.op = "delete" =>
                /\ get(Unwrap(vault), last'.id) # None
                /\ get(Unwrap(vault'), last'.id) = None]_vars

C2_Witness ==
    /\ last.op = "delete" /\ last.res = "Vault"
    /\ vault # None /\ get(Unwrap(vault), last.id) = None
    /\ disk # None /\ IndexOf(Stored.secrets, last.id) # 0

\* C3: for an id present in the document, update(id, new) leaves get(id) with
\* that id and the old created_at whatever the argument carried, takes the
\* user fields from new, keeps the record's position, and leaves every other
\* record and the length of the list unchanged.
C3_UpdateInPlace ==
    [][(last'.op = "update" /\ IndexOf(list(Unwrap(vault)), last'.id) # 0) =>
          LET old == list(Unwrap(vault))
              new == list(Unwrap(vault'))
              i == IndexOf(old, last'.id)
          IN  /\ Len(new) = Len(old)
              /\ IndexOf(new, last'.id) = i
              /\ get(Unwrap(vault'), last'.id) = Some(new[i])
              /\ new[i].id = last'.id
              /\ new[i].created_at = old[i].created_at
              /\ UserFields(new[i]) = UserFields(Unwrap(last'.arg))
              /\ \A j \in 1..Len(old) : j # i => new[j] = old[j]]_vars

C3_Witness ==
    /\ last.op = "update" /\ last.res = "Ok"
    /\ view.tag = "List" /\ status = Some("Secret saved.")
    /\ Len(Mem.secrets) >= 2
    /\ IndexOf(Mem.secrets, last.id) >= 2
    /\ Unwrap(last.arg).id # last.id
    /\ Unwrap(last.arg).created_at # Found(vault, last.id).created_at
    /\ UserFields(Found(vault, last.id)) = UserFields(Unwrap(last.arg))

\* C4: after every successful update, get(id).updated_at is strictly
\* greater than the record's updated_at before the update.
C4_UpdatedAtStrictlyGrows ==
    [][(last'.op = "update" /\ last'.res = "Ok") =>
          Found(vault', last'.id).updated_at > Found(vault, last'.id).updated_at]_vars

\* C5: update and delete with an id that no record carries return NotFound,
\* leave the in-memory document unchanged and do not write to the store.
C5_AbsentIdIsNotFound ==
    [][(last'.op \in {"update", "delete"}
            /\ IndexOf(list(Unwrap(vault)), last'.id) = 0) =>
          /\ last'.res = "NotFound"
          /\ vault' = vault
          /\ disk' = disk
          /\ fails' = fails]_vars

C5_Witness ==
    /\ last.op \in {"update", "delete"} /\ last.res = "NotFound"
    /\ vault # None /\ disk # None
    /\ Stored # Mem

\* C10: on load, a stored document whose version is greater than 1 is treated
\* as corrupted: open returns a Vault error and no manager is produced.
C10_NewerVersionRejected ==
    (last.op = "open_or_create" /\ disk # None /\ Stored.version > CURRENT_VERSION) =>
        (last.res = "Vault" /\ vault = None)

\* C12: open_or_create opens without writing when the file exists; otherwise
\* it creates the default document and persists it before returning, so that
\* after a successful create the file exists, list() is empty and an open with
\* the same password loads an empty document; when that first save fails no
\* manager is returned.
C12_OpenOrCreate ==
    [][last'.op = "open_or_create" =>
          IF exists(disk)
          THEN disk' = disk
          ELSE IF last'.res = "Ok"
          THEN /\ exists(disk')
               /\ vault' # None
               /\ list(Unwrap(vault')) = <<>>
               /\ open(disk', Unwrap(vault').password, TRUE).res = "Ok"
               /\ Unwrap(open(disk', Unwrap(vault').password, TRUE).mgr).data
                      = VaultDataDefault
          ELSE vault' = None /\ disk' = disk]_vars

\* a vault created in this run, after a first attempt could not write it
C12_Witness ==
    /\ last.op = "open_or_create" /\ last.res = "Ok"
    /\ fails = 1
    /\ vault # None /\ Unwrap(vault).password = <<"b">>
    /\ disk # None /\ Stored = VaultDataDefault

\* C13: search("") returns every record of the document exactly once, in the
\* order of list(), which is the order of insertion (the order in which the
\* ids were handed out), after any sequence of add, update and delete.
C13_EmptyQueryListsAll ==
    vault # None =>
        LET all == search(Unwrap(vault), <<>>)
        IN  /\ all = list(Unwrap(vault))
            /\ \A i, j \in 1..Len(all) : i < j => all[i].id < all[j].id

\* the first record was deleted, one was added and the older one updated
C13_Witness ==
    /\ vault # None
    /\ last.op = "update" /\ last.res = "Ok" /\ last.id = 2
    /\ Len(list(Unwrap(vault))) = 2
    /\ list(Unwrap(vault))[1].id = 2
    /\ list(Unwrap(vault))[2].id > Len(SampleSecrets)

\* the non-empty queries a caller searches for
Queries == {<<"a">>, <<"b">>, <<"a", "b">>, <<"b", "a">>}

\* the matcher gives q a score against the text
Scores(text, q) == IsSome(fuzzy_match(text, q))

\* q matches the name, a present username, a present url or a tag of s
FieldMatches(s, q) ==
    \/ Scores(s.name, q)
    \/ IsSome(s.username) /\ Scores(Unwrap(s.username), q)
    \/ IsSome(s.url) /\ Scores(Unwrap(s.url), q)
    \/ \E i \in 1..Len(s.tags) : Scores(s.tags[i], q)

\* C14: for a non-empty query q, search(q) returns, each at most once, exactly
\* the records that q matches on name, present username, present url or a
\* tag; password and notes never make a record match; the result is empty
\* exactly when no record matches on those fields.
C14_SearchMembership ==
    vault # None =>
        \A q \in Queries :
            LET all == list(Unwrap(vault))
                found == search(Unwrap(vault), q)
            IN  /\ \A i \in 1..Len(all) :
                      FieldMatches(all[i], q) <=>
                          \E k \in 1..Len(found) : found[k] = all[i]
                /\ \A k \in 1..Len(found) : \E i \in 1..Len(all) : found[k] = all[i]
                /\ \A k, l \in 1..Len(found) : found[k].id = found[l].id => k = l
                /\ (found = <<>>) <=> (\A i \in 1..Len(all) : ~FieldMatches(all[i], q))

\* a record whose password and notes hold the query is left out of a
\* result that is not empty
C14_Witness ==
    /\ vault # None
    /\ search(Unwrap(vault), <<"b">>) # <<>>
    /\ \E i \in 1..Len(list(Unwrap(vault))) :
         LET s == list(Unwrap(vault))[i]
         IN  /\ s.password = <<"b">> /\ s.notes = Some(<<"b">>)
             /\ \A k \in 1..Len(search(Unwrap(vault), <<"b">>)) :
                    search(Unwrap(vault), <<"b">>)[k].id # s.id

\* the largest of a set of scores, 0 when there is none
LargestOr0(S) == IF S = {} THEN 0 ELSE CHOOSE v \in S : \A w \in S : w <= v

\* max(best_field or 0, best_tag or 0)
ScoreOf(s, q) ==
    LET texts == {s.name}
                 \cup (IF IsSome(s.username) THEN {Unwrap(s.username)} ELSE {})
                 \cup (IF IsSome(s.url) THEN {Unwrap(s.url)} ELSE {})
        tags == {s.tags[i] : i \in 1..Len(s.tags)}
        best_field == {Unwrap(fuzzy_match(t, q)) : t \in {x \in texts : Scores(x, q)}}
        best_tag == {Unwrap(fuzzy_match(t, q)) : t \in {x \in tags : Scores(x, q)}}
    IN  Max(LargestOr0(best_field), LargestOr0(best_tag))

\* C15: for a non-empty query the records search returns are in
\* non-increasing order of max(best_field or 0, best_tag or 0), best_field
\* being the largest score over name, username and url, best_tag over the tags.
C15_SortedByScore ==
    vault # None =>
        \A q \in Queries :
            LET found == search(Unwrap(vault), q)
            IN  \A k, l \in 1..Len(found) :
                    k < l => ScoreOf(found[k], q) >= ScoreOf(found[l], q)

\* the sort moved a later record with a higher score to the front
C15_Witness ==
    /\ vault # None
    /\ LET found == search(Unwrap(vault), <<"a">>)
       IN  /\ Len(found) = 2
           /\ ScoreOf(found[1], <<"a">>) > ScoreOf(found[2], <<"a">>)
           /\ IndexOf(list(Unwrap(vault)), found[1].id)
                  > IndexOf(list(Unwrap(vault)), found[2].id)

(* ===================== properties of the generator ==================== *)

\* the characters of a class alphabet
CharsOf(alphabet) == {alphabet[i] : i \in 1..Len(alphabet)}

\* the union of the alphabets of the classes a configuration enables
EnabledAlphabet(config) ==
    (IF config.uppercase THEN CharsOf(UPPERCASE) ELSE {})
        \cup (IF config.lowercase THEN CharsOf(LOWERCASE) ELSE {})
        \cup (IF config.digits THEN CharsOf(DIGITS) ELSE {})
        \cup (IF config.symbols THEN CharsOf(SYMBOLS) ELSE {})

\* C16: generate(config) returns InvalidLength when length = 0 (also when no
\* class is enabled), otherwise EmptyCharset when no class is enabled, and
\* otherwise a string of exactly length characters, each in the union of the
\* enabled class alphabets.
C16_GenerateContract ==
    gen_result # None =>
        LET r == Unwrap(gen_result)
        IN  IF gen_config.length = 0 THEN r.res = "InvalidLength"
            ELSE IF EnabledAlphabet(gen_config) = {} THEN r.res = "EmptyCharset"
            ELSE /\ r.res = "Ok"
                 /\ Len(r.password) = gen_config.length
                 /\ \A i \in 1..Len(r.password) :
                        r.password[i] \in EnabledAlphabet(gen_config)

\* a digit followed by a symbol, from a configuration enabling just those
C16_Witness ==
    /\ gen_result # None
    /\ gen_config = GeneratorConfig(MaxLen, FALSE, FALSE, TRUE, TRUE)
    /\ Unwrap(gen_result).res = "Ok"
    /\ Unwrap(gen_result).password[1] \in CharsOf(DIGITS)
    /\ Unwrap(gen_result).password[MaxLen] \in CharsOf(SYMBOLS)

====
